---- MODULE Spec2Model ----
(***************************************************************************)
(* A model of flow-peacock's carryOverUserData                             *)
(* (src/components/carryOverUserData.ts): the remote fetches of            *)
(* getOfficialResponses, the field merge into the default profile, the     *)
(* contract downloads and the recording of the hit lists.                  *)
(***************************************************************************)
EXTENDS Integers, Sequences, FiniteSets, TLC

----------------------------------------------------------------------------
(* Bounds of the model. *)

\* invocations of carryOverUserData in one behaviour
MaxRuns == 2
\* pages the official server holds per hit category
MaxPages == 2
\* hits over the three downloadable listings of one remote state
MaxHits == 2
\* challenges in one location's response
MaxChallenges == 1
\* largest value of the downloadContractHistoryLimit flag
MaxLimit == 2
\* the most sublocation entries the server's player profile holds
MaxSubLocations == 2
\* the most hits of the escalation and arcade listings together
MaxEscalations == 2

----------------------------------------------------------------------------
(* JavaScript values. *)

None == <<>>
Some(v) == <<v>>

JsNull == "null"
JsUndefined == "undefined"

\* x ?? d
Coalesce(x, d) == IF x \in {JsNull, JsUndefined} THEN d ELSE x

RECURSIVE Concat(_)
\* [].concat(...xs): the concatenation of a sequence of sequences
Concat(xs) == IF xs = <<>> THEN <<>> ELSE Head(xs) \o Concat(Tail(xs))

\* xs.slice(0, n) for n >= 0
SliceFrom0(xs, n) == SubSeq(xs, 1, IF n < Len(xs) THEN n ELSE Len(xs))

Range(f) == {f[x] : x \in DOMAIN f}

\* all sequences over S of length at most n
SeqsUpTo(S, n) == UNION {[1..k -> S] : k \in 0..n}

----------------------------------------------------------------------------
(* The session's transport: what user._useService(...) settles to. *)

\* the status the fetchers compare against
StatusOk == 200

\* resolved with a body and status 200
Resolved200 == [kind |-> "resolved", status |-> 200, body |-> TRUE]
\* resolved with a status other than 200 (503 stands for all of them), with or
\* without a usable body
ResolvedNon200(b) == [kind |-> "resolved", status |-> 503, body |-> b]
\* rejected with an error that carries the server's response (e.response)
RejectedWithResponse == [kind |-> "rejected", status |-> 503, body |-> FALSE]
\* rejected with an error that carries no response (e.response undefined)
RejectedNoResponse == [kind |-> "rejected", status |-> 0, body |-> FALSE]

FaultySettlements ==
    {ResolvedNon200(TRUE), ResolvedNon200(FALSE), RejectedWithResponse,
     RejectedNoResponse}

\* what a request may settle to under network condition n
useService(n) ==
    IF n = "faulty" THEN {Resolved200} \cup FaultySettlements ELSE {Resolved200}

\* the settlement is a failure of the request: rejected, or a non-200 status
IsFailure(r) == r.kind = "rejected" \/ r.status # StatusOk

----------------------------------------------------------------------------
(* Fixed identifiers of the program. *)

freelancerId == "f8ec92c2-4fa2-471e-ae08-545480c746ee"
specialChallengeId == "2546d4f7-191c-4858-840f-321d31aed410"

areaIds ==
    << "fa7b2877-3159-454a-82d3-422a0dd7e5da",
       "7cfd6202-b3fb-4c9f-b3c2-c892b8031901",
       "0a4513e4-338c-4328-ad72-82c1b5ff2a73",
       "705c3917-9f3d-4444-a268-41e74bc8e4ad",
       "ba0fe890-9feb-4991-82f8-5daf7aff3380" >>

\* the hit categories with the history fetched before the escalations
CategoriesHistoryFirst ==
    <<"MyHistory", "ContractAttack", "Arcade", "MyContracts", "MyPlaylist">>

\* the hit categories in the order getOfficialResponses fetches them
Categories == <<"ContractAttack", "Arcade", "MyHistory", "MyContracts", "MyPlaylist">>

\* a sample of the mission registry: arrays of location strings under keys
missionsInLocations == << <<"LOCATION_PARIS">>, <<"LOCATION_MIAMI">> >>

\* the strings of the registry, in its iteration order
collectStrings(obj) == Concat(obj)

Locations == collectStrings(missionsInLocations)

----------------------------------------------------------------------------
(* The official server's data: the inputs of one behaviour. *)

\* public contract ids, a sequence of characters each
PublicIdA == <<"1","2","3","4","5","6","7","8","9","0","1","2">>
PublicIdB == <<"3","1","2","3","4","5","6","7","8","9","0","1">>
PublicIdLead4 == <<"4","1","2","3","4","5","6","7","8","9","0","1">>
PublicIdShort == <<"1","2","3","4","5","6","7","8","9","0","1">>
PublicIdAlpha == <<"1","2","3","4","5","6","7","8","9","0","1","x">>

\* LastPlayedAt strings the server sends
LastPlayedSample == "1970-01-01T00:00:01.000Z"

Hit(id, publicId) ==
    [Id |-> id, PublicId |-> publicId, EscalationCompletedLevels |-> 0,
     EscalationCompleted |-> FALSE, LastPlayedAt |-> LastPlayedSample,
     Completed |-> TRUE]

EscalationHit(id, levels, completed) ==
    [Id |-> id, PublicId |-> PublicIdA, EscalationCompletedLevels |-> levels,
     EscalationCompleted |-> completed, LastPlayedAt |-> LastPlayedSample,
     Completed |-> completed]

HitA == Hit("contract-a", PublicIdA)
HitB == Hit("contract-b", PublicIdB)
HitLead4 == Hit("contract-c", PublicIdLead4)
HitShort == Hit("contract-d", PublicIdShort)
HitAlpha == Hit("contract-e", PublicIdAlpha)

\* contracts whose public id is well formed
SupportedHits == {HitA, HitB}
\* user-created contracts of every sampled public id shape
AllHits == {HitA, HitB, HitLead4, HitShort, HitAlpha}

Page(hs, more) == [Hits |-> hs, HasMore |-> more]

\* a listing held as MaxPages pages: the hits on page 0, nothing further
SinglePage(hs) ==
    [p \in 1..MaxPages |-> IF p = 1 THEN Page(hs, FALSE) ELSE Page(<<>>, FALSE)]

\* the contract listed on each page of each category
PageHitIds ==
    [ContractAttack |-> <<"attack-p0", "attack-p1", "attack-p2", "attack-p3">>,
     Arcade |-> <<"arcade-p0", "arcade-p1", "arcade-p2", "arcade-p3">>,
     MyHistory |-> <<"history-p0", "history-p1", "history-p2", "history-p3">>,
     MyContracts |-> <<"created-p0", "created-p1", "created-p2", "created-p3">>,
     MyPlaylist |-> <<"playlist-p0", "playlist-p1", "playlist-p2", "playlist-p3">>]

\* a listing of n pages (1 <= n <= MaxPages), one hit per page named after the
\* category and the page; the pages from n on answer HasMore = false
PagedListing(c, n) ==
    [p \in 1..MaxPages |->
        Page(<<Hit(PageHitIds[c][p], IF p = 1 THEN PublicIdA ELSE PublicIdLead4)>>,
             p < n)]

Challenge(id, completed, completedAt, currentState) ==
    [Id |-> id, Completed |-> completed, CompletedAt |-> completedAt,
     CurrentState |-> currentState]

CompletedAtSample == "2023-01-26T00:00:00Z"

\* an ordinary challenge in each combination of flag and timestamp, and the
\* special challenge as the server would report it
ChallengeSamples ==
    { Challenge("challenge-1", TRUE, CompletedAtSample, "Success"),
      Challenge("challenge-1", TRUE, JsNull, JsUndefined),
      Challenge("challenge-1", FALSE, CompletedAtSample, JsUndefined),
      Challenge("challenge-1", FALSE, JsNull, "InProgress"),
      Challenge("challenge-1", FALSE, JsUndefined, JsUndefined),
      Challenge(specialChallengeId, TRUE, CompletedAtSample, "Success"),
      Challenge(specialChallengeId, FALSE, JsNull, JsUndefined) }

AreaSet == Range(areaIds)

NoAreas == [a \in AreaSet |-> "false"]
FirstArea == [a \in AreaSet |-> IF a = areaIds[1] THEN "true" ELSE "false"]
EveryArea == [a \in AreaSet |-> "true"]

\* the remote profile with its PersistentBool and opportunity strings given
ProfileOf(persistentBool, opportunities) ==
    [Id |-> "player-1", PersistentBool |-> persistentBool,
     opportunityprogression |-> opportunities]

Profile(persistentBool) ==
    [Id |-> "player-1", PersistentBool |-> persistentBool,
     opportunityprogression |-> [opportunity1 |-> "unlocked", opportunity2 |-> ""]]

PlayerProfile ==
    [SubLocationData |-> <<[Id |-> "LOCATION_PARENT_PARIS", XP |-> 6000, Level |-> 2]>>]

CpdPayload ==
    [ContractSessionId |-> "session-1",
     ContractProgressionData |-> [EvergreenLevel |-> "3"]]

Remote(profile, challenges, hitListings) ==
    [profile |-> profile, playerProfile |-> PlayerProfile,
     challenges |-> challenges, hits |-> hitListings, cpd |-> CpdPayload]

OneChallenge ==
    [l \in Range(Locations) |->
        IF l = Locations[1]
        THEN <<Challenge("challenge-1", FALSE, CompletedAtSample, JsUndefined)>>
        ELSE <<>>]

\* the five listings when only the three downloadable ones vary
Listings(myHistory, myContracts, myPlaylist) ==
    [ContractAttack |-> SinglePage(<<EscalationHit("escalation-1", 1, FALSE)>>),
     Arcade |-> SinglePage(<<>>),
     MyHistory |-> SinglePage(myHistory),
     MyContracts |-> SinglePage(myContracts),
     MyPlaylist |-> SinglePage(myPlaylist)]

\* escalation and arcade contracts as the server lists them: one in progress,
\* two completed
EscalationSamples ==
    { EscalationHit("escalation-1", 1, FALSE),
      EscalationHit("escalation-2", 2, TRUE),
      EscalationHit("escalation-3", 0, TRUE) }

\* the five listings when only the escalation and arcade ones vary
EscalationListings(attack, arcade) ==
    [ContractAttack |-> SinglePage(attack),
     Arcade |-> SinglePage(arcade),
     MyHistory |-> SinglePage(<<>>),
     MyContracts |-> SinglePage(<<>>),
     MyPlaylist |-> SinglePage(<<HitA>>)]

\* remote sublocation entries: one of a location the default profile keeps
\* flat, one of a location it keeps nested, one of a location it does not have
SubLocationSamples ==
    { [Id |-> "LOCATION_PARENT_PARIS", XP |-> 6000, Level |-> 2],
      [Id |-> "LOCATION_PARENT_AUSTRIA", XP |-> 4000, Level |-> 3],
      [Id |-> "LOCATION_PARENT_UNKNOWN", XP |-> 1000, Level |-> 1] }

\* sequences of sublocation entries, each id at most once
SubLocationDatas ==
    {s \in SeqsUpTo(SubLocationSamples, MaxSubLocations) :
        \A i, j \in 1..Len(s) : i # j => s[i].Id # s[j].Id}

\* the remote opportunity strings: "" for an opportunity not completed
OpportunitySamples ==
    [{"opportunity1", "opportunity2"} -> {"", "unlocked"}]
        \cup {[opportunity1 |-> "completed"], <<>>}

\* PersistentBool with, of the first three areas, one true, one absent or of a
\* value that is not the boolean true, and one true or false
PersistentBoolSamples ==
    UNION { { [a \in {areaIds[1], areaIds[3]} |->
                IF a = areaIds[1] THEN "true" ELSE third],
              [a \in {areaIds[1], areaIds[2], areaIds[3]} |->
                IF a = areaIds[1] THEN "true"
                ELSE IF a = areaIds[2] THEN second ELSE third] } :
            second \in {"false", "'true'", "1", JsNull},
            third \in {"true", "false"} }

\* the server's data with every part given
RemoteOf(profile, playerProfile, challenges, hitListings) ==
    [profile |-> profile, playerProfile |-> playerProfile,
     challenges |-> challenges, hits |-> hitListings, cpd |-> CpdPayload]

\* the feature flags (src/readme.md gives the defaults)
Flags(history, limit, myContracts, favorites) ==
    [downloadContractHistory |-> history, downloadContractHistoryLimit |-> limit,
     downloadMyContracts |-> myContracts, downloadFavorites |-> favorites]

DefaultFlags == Flags(FALSE, 0, FALSE, TRUE)

\* the versioned default profile: its location records and its empty lists
UserDefault ==
    [Locations |->
        [LOCATION_PARENT_PARIS |-> [Xp |-> 0, Level |-> 1, PreviouslySeenXp |-> 0]],
     PeacockEscalations |-> <<>>,
     PeacockCompletedEscalations |-> <<>>,
     PeacockFavoriteContracts |-> <<>>,
     PeacockPlayedContracts |-> <<>>,
     CPD |-> <<>>]

\* a default profile with a location kept flat and a location kept as a
\* mapping of sub-keys to records
UserDefaultNested ==
    [UserDefault EXCEPT !.Locations =
        [LOCATION_PARENT_PARIS |-> [Xp |-> 0, Level |-> 1, PreviouslySeenXp |-> 0],
         LOCATION_PARENT_AUSTRIA |->
            [normal |-> [Xp |-> 0, Level |-> 1, PreviouslySeenXp |-> 0],
             pro1 |-> [Xp |-> 0, Level |-> 1, PreviouslySeenXp |-> 0]]]]

----------------------------------------------------------------------------
(* State. *)

VARIABLES
    remote,       \* the official server's data
    flags,        \* the feature flags
    net,          \* "reliable" or "faulty": whether requests may fail
    userDefault,  \* the versioned default profile getVersionedConfig clones
    definition,   \* the registry's state machine of the special challenge
    resolved,     \* ids controller.resolveContract knows locally
    run,          \* the number of this invocation of carryOverUserData
    prev,         \* None, or Some of the previous invocation's oResp and result
    okIds,        \* ids downloaded successfully by any invocation so far
    pc,           \* where the invocation is
    oResp,        \* the responses collected by getOfficialResponses
    pending,      \* locations whose challenge request is in flight
    settled,      \* the settled challenge requests, by location
    arrival,      \* the locations in the order their requests settled
    cat,          \* index into Categories of the listing being fetched
    page,         \* requestHitsCategoryAll's page
    hits,         \* requestHitsCategoryAll's hits
    userData,     \* None, or Some of the profile being populated
    toDownload,   \* the three lists to download
    dlResult,     \* what became of each hit of the download sequence so far
    faults,       \* the fetches of this invocation that got a failure
    issued,       \* the requests this invocation has sent, in order
    error         \* None, or Some of the error the invocation ended with

envVars == <<remote, flags, net, userDefault, definition>>
vars ==
    <<remote, flags, net, userDefault, definition, resolved, run, prev, okIds, pc, oResp, pending, settled,
      arrival,
      cat, page, hits, userData, toDownload, dlResult, faults, issued, error>>

NoDownloads == [MyHistory |-> <<>>, MyContracts |-> <<>>, MyPlaylist |-> <<>>]

\* the state in which an invocation starts
Start ==
    /\ pc = "GetProfile"
    /\ oResp = <<>>
    /\ pending = {}
    /\ settled = <<>>
    /\ arrival = <<>>
    /\ cat = 1
    /\ page = 0
    /\ hits = <<>>
    /\ userData = None
    /\ toDownload = NoDownloads
    /\ dlResult = <<>>
    /\ faults = {}
    /\ issued = <<>>
    /\ error = None

InitWith(remotes, flagSets, nets, defaults, definitions, knownIds) ==
    /\ remote \in remotes
    /\ flags \in flagSets
    /\ net \in nets
    /\ userDefault \in defaults
    /\ definition \in definitions
    /\ resolved \in knownIds
    /\ run = 1
    /\ prev = None
    /\ okIds = {}
    /\ Start

----------------------------------------------------------------------------
(* getOfficialResponses: the remote fetches. *)

\* a request to the official server: the endpoint, and the location, hit
\* category or mission id and the page it asks for
Request(endpoint, arg, number) ==
    [endpoint |-> endpoint, arg |-> arg, page |-> number]

\* an async function throws: the invocation ends with that error
Throw(at, detail) ==
    /\ pc' = "failed"
    /\ error' = Some([at |-> at, detail |-> detail])

\* the failures an invocation has seen, with the settlement r of fetch f added
Noted(f, r) == IF IsFailure(r) THEN faults \cup {f} ELSE faults

\* requestGetProfile and requestPlayerProfile throw unless the status is 200; a
\* rejected request throws by itself
StatusCheckThrows(r) == r.kind = "rejected" \/ r.status # StatusOk

requestGetProfile ==
    /\ pc = "GetProfile"
    /\ issued' = Append(issued, Request("GetProfile", "", 0))
    /\ \E r \in useService(net) :
        /\ faults' = Noted("GetProfile", r)
        /\ IF StatusCheckThrows(r)
           THEN /\ Throw("GetProfile", "Error getting user profile from official server.")
                /\ UNCHANGED oResp
           ELSE /\ oResp' = oResp @@ ("GetProfile" :> remote.profile)
                /\ pc' = "PlayerProfile"
                /\ UNCHANGED error
    /\ UNCHANGED <<envVars, resolved, run, prev, okIds, pending, settled, arrival, cat, page,
                   hits, userData, toDownload, dlResult>>

requestPlayerProfile ==
    /\ pc = "PlayerProfile"
    /\ issued' = Append(issued, Request("PlayerProfile", "", 0))
    /\ \E r \in useService(net) :
        /\ faults' = Noted("PlayerProfile", r)
        /\ IF StatusCheckThrows(r)
           THEN /\ Throw("PlayerProfile", "Error getting user profile from official server.")
                /\ UNCHANGED oResp
           ELSE /\ oResp' = oResp @@ ("PlayerProfile" :> remote.playerProfile)
                /\ pc' = "Challenges"
                /\ UNCHANGED error
    /\ UNCHANGED <<envVars, resolved, run, prev, okIds, pending, settled, arrival, cat, page,
                   hits, userData, toDownload, dlResult>>

\* requestChallenges up to its await: one request per location, all issued
\* before any is awaited
requestChallenges ==
    /\ pc = "Challenges"
    /\ pending' = Range(Locations)
    /\ settled' = <<>>
    /\ arrival' = <<>>
    /\ issued' = issued \o
        [i \in 1..Len(Locations) |-> Request("Challenges", Locations[i], 0)]
    /\ pc' = "AwaitChallenges"
    /\ UNCHANGED <<envVars, resolved, run, prev, okIds, oResp, cat, page, hits,
                   userData, toDownload, dlResult, faults, error>>

\* the index of the first response whose status is not 200, or 0
FirstNon200(responses) ==
    IF \E i \in 1..Len(responses) : responses[i].status # StatusOk
    THEN CHOOSE i \in 1..Len(responses) :
            /\ responses[i].status # StatusOk
            /\ \A j \in 1..(i - 1) : responses[j].status = StatusOk
    ELSE 0

RECURSIVE SetAllFirstWins(_, _)
\* the map filled without replacing an entry it already has
SetAllFirstWins(map, cs) ==
    IF cs = <<>> THEN map
    ELSE SetAllFirstWins(map @@ (Head(cs).Id :> Head(cs)), Tail(cs))

RECURSIVE SetAll(_, _)
\* challenges.set(challenge.Challenge.Id, challenge) for each challenge of cs
SetAll(map, cs) ==
    IF cs = <<>> THEN map
    ELSE SetAll((Head(cs).Id :> Head(cs)) @@ map, Tail(cs))

RECURSIVE ChallengeMap(_, _)
\* the map built from the responses' data, in the order of the responses
ChallengeMap(map, datas) ==
    IF datas = <<>> THEN map
    ELSE ChallengeMap(SetAll(map, Head(datas)), Tail(datas))

\* one challenge request settles; Promise.all rejects with the first rejection
\* and resolves when every request has resolved, and requestChallenges then
\* goes through the responses in the order the requests were issued
settleChallenge(l) ==
    /\ l \in pending
    /\ \E r \in useService(net) :
        LET now == settled @@ (l :> r)
            responses == [i \in 1..Len(Locations) |-> now[Locations[i]]]
            bad == FirstNon200(responses)
        IN  /\ pending' = pending \ {l}
            /\ settled' = now
            /\ arrival' = Append(arrival, l)
            /\ IF pc # "AwaitChallenges"
               THEN UNCHANGED <<pc, error, oResp, faults>>
               ELSE /\ faults' = Noted("Challenges", r)
                    /\ IF r.kind = "rejected"
                       THEN /\ Throw("Challenges", "rejected")
                            /\ UNCHANGED oResp
                       ELSE IF pending' # {}
                       THEN UNCHANGED <<pc, error, oResp>>
                       ELSE IF bad # 0
                       THEN /\ Throw("Challenges", Locations[bad])
                            /\ UNCHANGED oResp
                       ELSE /\ oResp' = oResp @@
                                ("Challenges" :>
                                    ChallengeMap(<<>>,
                                        [i \in 1..Len(Locations) |->
                                            remote.challenges[Locations[i]]]))
                            /\ pc' = "Hits"
                            /\ UNCHANGED error
    /\ UNCHANGED <<envVars, resolved, run, prev, okIds, cat, page, hits, userData,
                   toDownload, dlResult, issued>>

\* requestHitsCategory reads response.data.data without looking at the status:
\* it throws when the request is rejected or the response has no such body
HitsCategoryThrows(r) == r.kind = "rejected" \/ ~r.body

\* the hits kept with only the page just received
AccumulateLastPage(sofar, response) == response.Hits

\* hits.push(...response.Data.Hits)
AccumulateHits(sofar, response) == sofar \o response.Hits

\* one turn of requestHitsCategoryAll's loop
requestHitsCategory ==
    /\ pc = "Hits"
    /\ page < MaxPages
    /\ issued' = Append(issued, Request("HitsCategory", Categories[cat], page))
    /\ \E r \in useService(net) :
        LET type == Categories[cat]
            response == remote.hits[type][page + 1]
            all == AccumulateHits(hits, response)
        IN  /\ faults' = Noted("Hits", r)
            /\ IF HitsCategoryThrows(r)
               THEN /\ Throw("Hits", type)
                    /\ UNCHANGED <<oResp, hits, page, cat>>
               ELSE IF response.HasMore
               THEN /\ hits' = all
                    /\ page' = page + 1
                    /\ UNCHANGED <<oResp, cat, pc, error>>
               ELSE /\ oResp' = oResp @@ (type :> all)
                    /\ hits' = <<>>
                    /\ page' = 0
                    /\ IF cat < Len(Categories)
                       THEN cat' = cat + 1 /\ UNCHANGED pc
                       ELSE cat' = cat /\ pc' = "CPD"
                    /\ UNCHANGED error
    /\ UNCHANGED <<envVars, resolved, run, prev, okIds, pending, settled, arrival, userData,
                   toDownload, dlResult>>

\* requestGetForPlay2: a rejection is turned into e.response, and anything but
\* status 200 throws (reading the status of an undefined response throws too)
requestGetForPlay2(r) ==
    LET response ==
            IF r.kind = "rejected"
            THEN (IF r = RejectedNoResponse THEN None ELSE Some(r))
            ELSE Some(r)
    IN  IF response = None \/ response[1].status # StatusOk
        THEN [threw |-> TRUE, value |-> None]
        ELSE [threw |-> FALSE, value |-> Some(remote.cpd)]

\* getOfficialResponses without the catch: the error of requestGetForPlay2 goes on
catchForPlay2Missing(result) == result

\* the catch around requestGetForPlay2 in getOfficialResponses: undefined
catchForPlay2(result) ==
    IF result.threw THEN [threw |-> FALSE, value |-> None] ELSE result

requestCPD ==
    /\ pc = "CPD"
    /\ issued' = Append(issued, Request("GetForPlay2", freelancerId, 0))
    /\ \E r \in useService(net) :
        LET got == catchForPlay2(requestGetForPlay2(r))
        IN  /\ faults' = Noted("CPD", r)
            /\ IF got.threw
               THEN /\ Throw("CPD", "Error getting freelancer CPD from official server.")
                    /\ UNCHANGED oResp
               ELSE /\ oResp' = oResp @@ ("CPD" :> got.value)
                    /\ pc' = "Merge"
                    /\ UNCHANGED error
    /\ UNCHANGED <<envVars, resolved, run, prev, okIds, pending, settled, arrival, cat, page,
                   hits, userData, toDownload, dlResult>>

----------------------------------------------------------------------------
(* carryOverUserData: the merge into the default profile. *)

\* obj[key] = value
SetKey(obj, key, value) == (key :> value) @@ obj

\* obj[key], undefined when the object has no such key
GetKey(obj, key) == IF key \in DOMAIN obj THEN obj[key] ELSE JsUndefined

\* the location record with the remote XP and level written into it: on the
\* record itself when it has an Xp key, on each of its child records otherwise
MergeLocation(location, data) ==
    LET Written(rec) ==
            SetKey(SetKey(SetKey(rec, "Xp", data.XP), "Level", data.Level),
                   "PreviouslySeenXp", data.XP)
    IN  IF "Xp" \in DOMAIN location
        THEN Written(location)
        ELSE [k \in DOMAIN location |-> Written(location[k])]

RECURSIVE MergeLocations(_, _)
\* the loop over SubLocationData; Object.hasOwn throws on a location id the
\* default profile does not have
MergeLocations(locations, subs) ==
    IF subs = <<>> THEN [threw |-> FALSE, value |-> locations]
    ELSE IF Head(subs).Id \notin DOMAIN locations
    THEN [threw |-> TRUE, value |-> locations]
    ELSE MergeLocations(
            SetKey(locations, Head(subs).Id,
                   MergeLocation(locations[Head(subs).Id], Head(subs))),
            Tail(subs))

\* the conversion with every opportunity counted as completed
OpportunityProgressionAllTrue(official) == [k \in DOMAIN official |-> TRUE]

\* the conversion of the opportunity strings to booleans
OpportunityProgression(official) == [k \in DOMAIN official |-> official[k] # ""]

\* Completed taken from the server's flag alone
ChallengeCompletedFlagOnly(progression) == progression.Completed

\* Completed (and Ticked) of a fetched challenge
ChallengeCompleted(progression) ==
    progression.Completed \/ progression.CompletedAt # JsNull

ChallengeEntry(progression) ==
    [Ticked |-> ChallengeCompleted(progression),
     Completed |-> ChallengeCompleted(progression),
     CurrentState |-> Coalesce(progression.CurrentState, "Start"),
     State |-> [CurrentState |-> progression.CurrentState]]

\* the state machine evaluator on an AreaDiscovered event: "AnyEvent" moves to
\* Success on any event, "AllAreas" once every area has been discovered
handleEvent(def, context, area, currentState) ==
    LET seen == IF area \in Range(context.Discovered)
                THEN context.Discovered
                ELSE Append(context.Discovered, area)
    IN  [state |->
            IF currentState = "Success" \/ def = "AnyEvent"
                \/ Len(seen) = Len(areaIds)
            THEN "Success"
            ELSE currentState,
         context |-> [Discovered |-> seen]]

RECURSIVE Replay(_, _, _, _)
Replay(def, state, context, areas) ==
    IF areas = <<>> THEN [state |-> state, context |-> context]
    ELSE LET result == handleEvent(def, context, Head(areas), state)
         IN  Replay(def, result.state, result.context, Tail(areas))

\* the entry with Completed taken from whether any area was discovered
getChallengeCompletedByAnyArea(def, areasDiscovered) ==
    LET final == Replay(def, "Start", [Discovered |-> <<>>], areasDiscovered)
    IN  [Ticked |-> FALSE,
         Completed |-> areasDiscovered # <<>>,
         CurrentState |-> final.state,
         State |-> final.context]

getChallengeAfterAreasDiscovered(def, areasDiscovered) ==
    LET final == Replay(def, "Start", [Discovered |-> <<>>], areasDiscovered)
    IN  [Ticked |-> FALSE,
         Completed |-> final.state = "Success",
         CurrentState |-> final.state,
         State |-> final.context]

\* the areas whose PersistentBool is truthy, in the order of areaIds
AreasDiscoveredTruthy(persistentBool) ==
    LET IsTruthy(area) ==
            GetKey(persistentBool, area) \notin {"false", JsNull, JsUndefined}
    IN  SelectSeq(areaIds, IsTruthy)

\* the areas whose PersistentBool is strictly true, in the order of areaIds
AreasDiscovered(persistentBool) ==
    LET IsTrue(area) == GetKey(persistentBool, area) = "true"
    IN  SelectSeq(areaIds, IsTrue)

\* userData.Extensions.ChallengeProgression
ChallengeProgression(challenges, persistentBool, def) ==
    SetKey([id \in DOMAIN challenges |-> ChallengeEntry(challenges[id])],
           specialChallengeId,
           getChallengeAfterAreasDiscovered(def, AreasDiscovered(persistentBool)))

RECURSIVE Escalations(_, _)
\* PeacockEscalations after the loop over the escalation and arcade hits
Escalations(levels, hs) ==
    IF hs = <<>> THEN levels
    ELSE Escalations(
            SetKey(levels, Head(hs).Id, Head(hs).EscalationCompletedLevels + 1),
            Tail(hs))

\* PeacockCompletedEscalations after the same loop
CompletedEscalations(list, hs) ==
    LET Done(hit) == hit.EscalationCompleted
        done == SelectSeq(hs, Done)
    IN  list \o [i \in 1..Len(done) |-> done[i].Id]

\* toDownload with the limit applied to MyHistory in place of MyContracts
ToDownloadCutsHistory(responses, fl) ==
    LET limit == fl.downloadContractHistoryLimit
        lists ==
            [MyHistory |-> IF fl.downloadContractHistory THEN responses["MyHistory"] ELSE <<>>,
             MyContracts |-> IF fl.downloadMyContracts THEN responses["MyContracts"] ELSE <<>>,
             MyPlaylist |-> IF fl.downloadFavorites THEN responses["MyPlaylist"] ELSE <<>>]
    IN  IF limit # 0
        THEN [lists EXCEPT !.MyHistory = SliceFrom0(lists.MyHistory, limit)]
        ELSE lists

\* toDownload, MyContracts cut to the limit when the limit is not 0
ToDownload(responses, fl) ==
    LET limit == fl.downloadContractHistoryLimit
        lists ==
            [MyHistory |-> IF fl.downloadContractHistory THEN responses["MyHistory"] ELSE <<>>,
             MyContracts |-> IF fl.downloadMyContracts THEN responses["MyContracts"] ELSE <<>>,
             MyPlaylist |-> IF fl.downloadFavorites THEN responses["MyPlaylist"] ELSE <<>>]
    IN  IF limit # 0
        THEN [lists EXCEPT !.MyContracts = SliceFrom0(lists.MyContracts, limit)]
        ELSE lists

\* the profile after the synchronous part of carryOverUserData, from the clone
\* of the default profile to the download loop
Merged(responses, default, def) ==
    LET official == responses["GetProfile"]
        locations ==
            MergeLocations(default.Locations, responses["PlayerProfile"].SubLocationData)
        escalationHits == responses["ContractAttack"] \o responses["Arcade"]
    IN  [threw |-> locations.threw,
         value |->
            [Id |-> official.Id,
             Locations |-> locations.value,
             PersistentBool |-> official.PersistentBool,
             opportunityprogression |->
                OpportunityProgression(official.opportunityprogression),
             ChallengeProgression |->
                IF locations.threw THEN <<>>
                ELSE ChallengeProgression(responses["Challenges"],
                                          official.PersistentBool, def),
             PeacockEscalations |->
                IF locations.threw THEN default.PeacockEscalations
                ELSE Escalations(default.PeacockEscalations, escalationHits),
             PeacockCompletedEscalations |->
                IF locations.threw THEN default.PeacockCompletedEscalations
                ELSE CompletedEscalations(default.PeacockCompletedEscalations,
                                          escalationHits),
             PeacockFavoriteContracts |-> default.PeacockFavoriteContracts,
             PeacockPlayedContracts |-> default.PeacockPlayedContracts,
             CPD |-> default.CPD]]

merge ==
    /\ pc = "Merge"
    /\ LET result == Merged(oResp, userDefault, definition)
       IN  /\ userData' = Some(result.value)
           /\ IF result.threw
              THEN /\ Throw("Merge", "TypeError")
                   /\ UNCHANGED toDownload
              ELSE /\ toDownload' = ToDownload(oResp, flags)
                   /\ pc' = "Download"
                   /\ UNCHANGED error
    /\ UNCHANGED <<envVars, resolved, run, prev, okIds, oResp, pending, settled, arrival, cat,
                   page, hits, dlResult, faults, issued>>

----------------------------------------------------------------------------
(* carryOverUserData: the downloads and the recording of the hit lists. *)

Digit == {"0", "1", "2", "3", "4", "5", "6", "7", "8", "9"}

\* /^\d{3}\d{7}\d{2}$/: the pattern without the class of the first character
publicIdPatternAnyDigit == [i \in 1..12 |-> Digit]

\* /^[1-3]\d{2}\d{7}\d{2}$/ as the character class of each position
publicIdPattern ==
    <<{"1", "2", "3"}>> \o [i \in 1..2 |-> Digit] \o [i \in 1..7 |-> Digit]
        \o [i \in 1..2 |-> Digit]

\* pattern.test(text) for an anchored pattern of single-character classes
RegexTest(pattern, text) ==
    /\ Len(text) = Len(pattern)
    /\ \A i \in 1..Len(pattern) : text[i] \in pattern[i]

\* the hits the download loop goes through, in its order
DownloadSequence(lists) == lists.MyContracts \o lists.MyPlaylist \o lists.MyHistory

\* controller.resolveContract(id): whether the contract is known locally
resolveContract(id) == id \in resolved

\* the loop without the resolver check
HitDecisionNoResolve(hit) ==
    IF ~RegexTest(publicIdPattern, hit.PublicId) THEN "unsupported" ELSE "download"

\* what the loop does with a hit before any await: "resolved" (skipped, known
\* locally), "unsupported" (skipped, public id not of the pattern) or "download"
HitDecision(hit) ==
    IF resolveContract(hit.Id) THEN "resolved"
    ELSE IF ~RegexTest(publicIdPattern, hit.PublicId) THEN "unsupported"
    ELSE "download"

\* the hit the loop is at
CurrentHit == DownloadSequence(toDownload)[Len(dlResult) + 1]

\* one turn of the download loop, up to the await of downloadContract
processHit ==
    /\ pc = "Download"
    /\ Len(dlResult) < Len(DownloadSequence(toDownload))
    /\ LET decision == HitDecision(CurrentHit)
       IN  IF decision = "download"
           THEN pc' = "Downloading" /\ UNCHANGED dlResult
           ELSE dlResult' = Append(dlResult, decision) /\ UNCHANGED pc
    /\ UNCHANGED <<envVars, resolved, run, prev, okIds, oResp, pending, settled, arrival, cat,
                   page, hits, userData, toDownload, faults, issued, error>>

\* the download awaited without a catch: a failed download throws
catchDownloadMissing(ok) == [threw |-> ~ok]

\* the catch on downloadContract's promise: a failed download is logged
catchDownload(ok) == [threw |-> FALSE]

\* controller.downloadContract settles: the contract is stored and resolves from
\* then on, or the download fails
settleDownload ==
    /\ pc = "Downloading"
    /\ \E ok \in BOOLEAN :
        /\ resolved' = IF ok THEN resolved \cup {CurrentHit.Id} ELSE resolved
        /\ okIds' = IF ok THEN okIds \cup {CurrentHit.Id} ELSE okIds
        /\ dlResult' = Append(dlResult, IF ok THEN "downloaded" ELSE "failed")
        /\ IF catchDownload(ok).threw
           THEN Throw("Download", CurrentHit.Id)
           ELSE pc' = "Download" /\ UNCHANGED error
    /\ UNCHANGED <<envVars, run, prev, oResp, pending, settled, arrival, cat, page, hits,
                   userData, toDownload, faults, issued>>

\* new Date(text).getTime() on the server's timestamps
DateGetTime(text) == CASE text = LastPlayedSample -> 1000

RECURSIVE PlayedContracts(_, _)
\* PeacockPlayedContracts after the loop over the history hits
PlayedContracts(played, hs) ==
    IF hs = <<>> THEN played
    ELSE PlayedContracts(
            SetKey(played, Head(hs).Id,
                   [LastPlayedAt |-> DateGetTime(Head(hs).LastPlayedAt),
                    Completed |-> Head(hs).Completed,
                    IsEscalation |-> FALSE]),
            Tail(hs))

\* the favorites recorded only for the contracts that resolve locally
FavoriteContractsResolvedOnly(list, lists) ==
    LET Known(hit) == hit.Id \in resolved
        hs == SelectSeq(lists.MyContracts \o lists.MyPlaylist, Known)
    IN  list \o [i \in 1..Len(hs) |-> hs[i].Id]

\* PeacockFavoriteContracts after the loop over the created and favorite hits
FavoriteContracts(list, lists) ==
    LET hs == lists.MyContracts \o lists.MyPlaylist
    IN  list \o [i \in 1..Len(hs) |-> hs[i].Id]

\* the payload with the fields of its ContractProgressionData written into it
CpdEntry(payload) == payload.ContractProgressionData @@ payload

\* the recording with the history hits recorded whatever the flag
RecordedAlwaysPlayed(profile, responses, lists, fl) ==
    [profile EXCEPT
        !.PeacockPlayedContracts = PlayedContracts(@, responses["MyHistory"]),
        !.PeacockFavoriteContracts = FavoriteContracts(@, lists),
        !.CPD =
            IF responses["CPD"] = None THEN @
            ELSE SetKey(@, freelancerId, CpdEntry(responses["CPD"][1]))]

\* the profile carryOverUserData returns, from the profile after the downloads
Recorded(profile, responses, lists, fl) ==
    [profile EXCEPT
        !.PeacockPlayedContracts =
            IF fl.downloadContractHistory
            THEN PlayedContracts(@, responses["MyHistory"])
            ELSE @,
        !.PeacockFavoriteContracts = FavoriteContracts(@, lists),
        !.CPD =
            IF responses["CPD"] = None THEN @
            ELSE SetKey(@, freelancerId, CpdEntry(responses["CPD"][1]))]

\* the end of carryOverUserData, after the last turn of the download loop
finish ==
    /\ pc = "Download"
    /\ Len(dlResult) = Len(DownloadSequence(toDownload))
    /\ userData' = Some(Recorded(userData[1], oResp, toDownload, flags))
    /\ oResp' =
        IF oResp["CPD"] = None THEN oResp
        ELSE [oResp EXCEPT !["CPD"] = Some(CpdEntry(@[1]))]
    /\ pc' = "done"
    /\ UNCHANGED <<envVars, resolved, run, prev, okIds, pending, settled, arrival, cat, page,
                   hits, toDownload, dlResult, faults, issued, error>>

\* carryOverUserData is called again, against the same remote state
rerun ==
    /\ pc = "done"
    /\ run < MaxRuns
    /\ run' = run + 1
    /\ prev' = Some([oResp |-> oResp, userData |-> userData[1]])
    /\ pc' = "GetProfile"
    /\ oResp' = <<>>
    /\ pending' = {}
    /\ settled' = <<>>
    /\ arrival' = <<>>
    /\ cat' = 1
    /\ page' = 0
    /\ hits' = <<>>
    /\ userData' = None
    /\ toDownload' = NoDownloads
    /\ dlResult' = <<>>
    /\ faults' = {}
    /\ issued' = <<>>
    /\ error' = None
    /\ UNCHANGED <<envVars, resolved, okIds>>

Next ==
    \/ requestGetProfile
    \/ requestPlayerProfile
    \/ requestChallenges
    \/ \E l \in Range(Locations) : settleChallenge(l)
    \/ requestHitsCategory
    \/ requestCPD
    \/ merge
    \/ processHit
    \/ settleDownload
    \/ finish
    \/ rerun

----------------------------------------------------------------------------
(* Specifications: the same program on different sets of inputs. *)

\* every fetch may fail; the listings have one to MaxPages pages each; the
\* flags are the defaults of the readme
InitFetch ==
    InitWith(
        {Remote(Profile(FirstArea), OneChallenge,
                [c \in Range(Categories) |-> PagedListing(c, n[c])]) :
            n \in [Range(Categories) -> 1..MaxPages]},
        {DefaultFlags}, {"faulty"}, {UserDefault}, {"AllAreas"}, {{}})

SpecFetch == InitFetch /\ [][Next]_vars

\* the same, with the pagination loop going on whenever a page is answered
SpecFetchFair == SpecFetch /\ WF_vars(requestHitsCategory)

\* the three downloadable listings (history, created, favorites) over the hits
\* of S, at most n hits in all
ListingTriples(S, n) ==
    UNION { UNION { { <<SubSeq(t, 1, i), SubSeq(t, i + 1, j), SubSeq(t, j + 1, Len(t))>> :
                        j \in i..Len(t) } :
                    i \in 0..Len(t) } :
            t \in SeqsUpTo(S, n) }

RemotesOver(triples) ==
    {Remote(Profile(FirstArea), OneChallenge, Listings(t[1], t[2], t[3])) :
        t \in triples}

\* every download enabled and no limit; listings over every sampled shape of
\* public id; one contract may be known locally beforehand
InitDownloadSequence ==
    InitWith(RemotesOver(ListingTriples(AllHits, MaxHits)),
             {Flags(TRUE, 0, TRUE, TRUE)}, {"reliable"}, {UserDefault},
             {"AllAreas"}, {{}, {HitA.Id}})

\* every setting of the flags; listings of downloadable contracts
InitDownloadFlags ==
    InitWith(RemotesOver(ListingTriples(SupportedHits, MaxHits)),
             {Flags(h, n, m, f) :
                h \in BOOLEAN, n \in 0..MaxLimit, m \in BOOLEAN, f \in BOOLEAN},
             {"reliable"}, {UserDefault}, {"AllAreas"}, {{}})

InitDownload == InitDownloadSequence \/ InitDownloadFlags

SpecDownload == InitDownload /\ [][Next]_vars

\* every location answers with up to MaxChallenges sampled challenges; the
\* areas discovered vary
InitChallenge ==
    InitWith(
        {Remote(Profile(pb), cs, Listings(<<>>, <<>>, <<HitA>>)) :
            pb \in {NoAreas, FirstArea, EveryArea},
            cs \in [Range(Locations) -> SeqsUpTo(ChallengeSamples, MaxChallenges)]},
        {DefaultFlags}, {"reliable"}, {UserDefault}, {"AllAreas"}, {{}})

SpecChallenge == InitChallenge /\ [][Next]_vars

\* two listings that share a sequence of at most n hits of S between them
ListingPairs(S, n) ==
    UNION { { <<SubSeq(t, 1, i), SubSeq(t, i + 1, Len(t))>> : i \in 0..Len(t) } :
            t \in SeqsUpTo(S, n) }

\* the locations whose challenges the server reports the special challenge in
SpecialReported ==
    [l \in Range(Locations) |->
        IF l = Locations[1]
        THEN <<Challenge(specialChallengeId, TRUE, CompletedAtSample, "Success")>>
        ELSE <<>>]

\* the escalation and arcade listings vary
InitEscalation ==
    InitWith(
        {RemoteOf(Profile(FirstArea), PlayerProfile, OneChallenge,
                  EscalationListings(t[1], t[2])) :
            t \in ListingPairs(EscalationSamples, MaxEscalations)},
        {DefaultFlags}, {"reliable"}, {UserDefault}, {"AllAreas"}, {{}})

\* the player profile's sublocation entries vary, against a default profile
\* with a flat and a nested location
InitLocation ==
    InitWith(
        {RemoteOf(Profile(FirstArea), [SubLocationData |-> subs], OneChallenge,
                  Listings(<<>>, <<>>, <<HitA>>)) :
            subs \in SubLocationDatas},
        {DefaultFlags}, {"reliable"}, {UserDefaultNested}, {"AllAreas"}, {{}})

\* the profile's PersistentBool and opportunity strings and the evaluator's
\* definition vary; the server may report the special challenge itself
InitReconstruct ==
    InitWith(
        {RemoteOf(ProfileOf(pb, opp), PlayerProfile, cs,
                  Listings(<<>>, <<>>, <<HitA>>)) :
            pb \in PersistentBoolSamples \cup {NoAreas, FirstArea, EveryArea},
            opp \in OpportunitySamples,
            cs \in {OneChallenge, SpecialReported}},
        {DefaultFlags}, {"reliable"}, {UserDefault}, {"AnyEvent", "AllAreas"}, {{}})

InitMerge == InitEscalation \/ InitLocation \/ InitReconstruct

SpecMerge == InitMerge /\ [][Next]_vars

Init == InitFetch \/ InitDownload \/ InitChallenge \/ InitMerge

Spec == Init /\ [][Next]_vars

----------------------------------------------------------------------------
(* The claims. *)

\* the invocation has loaded the default profile and got through the merge
Merging == pc \in {"Download", "Downloading", "done"}

\* the fetches getOfficialResponses makes
AllFetched ==
    {"GetProfile", "PlayerProfile", "Challenges", "CPD"} \cup Range(Categories)

\* the fetches other than the contract-progression-data probe that got a
\* failure in this invocation
RequiredFaults == faults \ {"CPD"}

\* what the download loop has done with the i-th hit of its sequence
Attempted(i) == dlResult[i] \in {"downloaded", "failed"}

\* C1: a non-200 response to any fetch other than the contract-progression-data
\* probe makes carryOverUserData fail: it never returns a profile after one.
C1_NonSuccessNeverReturns == pc = "done" => RequiredFaults = {}

\* C2: the default profile is loaded and written, and downloads are started,
\* only after every fetch has completed successfully (the
\* contract-progression-data probe may have failed).
C2_FetchesSucceedBeforeMutation ==
    (userData # None \/ pc = "Downloading") =>
        /\ DOMAIN oResp = AllFetched
        /\ RequiredFaults = {}

\* C3: a failed contract-progression-data fetch (non-200, or rejected with or
\* without a response) never ends the invocation: the fetch yields no data, the
\* invocation goes on to the merge, and the returned profile has no CPD entry
\* for the probed mission.
C3_CpdFailureTolerated ==
    "CPD" \in faults =>
        /\ pc # "CPD"
        /\ error # None => error[1].at # "CPD"
        /\ oResp["CPD"] = None
        /\ pc = "done" => freelancerId \notin DOMAIN userData[1].CPD

\* C3 witness: an invocation whose probe failed has downloaded a contract and
\* returned.
C3_Witness ==
    /\ pc = "done"
    /\ "CPD" \in faults
    /\ "downloaded" \in Range(dlResult)
    /\ userData # None

\* C4: a failed download never ends the invocation: the loop goes on with the
\* later hits, and the invocation returns the profile once every hit of the
\* sequence has been dealt with.
C4_DownloadFailureCaught ==
    /\ error # None => error[1].at # "Download"
    /\ "failed" \in Range(dlResult) => pc \in {"Download", "Downloading", "done"}
    /\ pc = "done" =>
        /\ Len(dlResult) = Len(DownloadSequence(toDownload))
        /\ userData # None

\* C4 witness: the invocation has returned after a failed download that was
\* followed by a successful one.
C4_Witness ==
    /\ pc = "done"
    /\ \E i, j \in 1..Len(dlResult) :
        i < j /\ dlResult[i] = "failed" /\ dlResult[j] = "downloaded"

\* a string of exactly twelve decimal digits
TwelveDigits(text) == Len(text) = 12 /\ \A i \in 1..Len(text) : text[i] \in Digit

\* C5 as claimed: a hit that is not resolved locally is downloaded if and only
\* if its PublicId is a string of exactly twelve decimal digits.
C5_TwelveDigitsDownloaded ==
    Merging =>
        /\ \A i \in 1..Len(dlResult) :
            dlResult[i] # "resolved" =>
                (Attempted(i) <=> TwelveDigits(DownloadSequence(toDownload)[i].PublicId))
        /\ pc = "Downloading" => TwelveDigits(CurrentHit.PublicId)

\* C5 as amended: a hit that is not resolved locally is downloaded if and only
\* if its PublicId is a string of exactly twelve decimal digits of which the
\* first is 1, 2 or 3; any other string is skipped, without an error and
\* without stopping the loop.
C5_SupportedIdsDownloaded ==
    LET Supported(text) == TwelveDigits(text) /\ text[1] \in {"1", "2", "3"}
    IN  /\ Merging =>
            /\ \A i \in 1..Len(dlResult) :
                dlResult[i] # "resolved" =>
                    (Attempted(i) <=> Supported(DownloadSequence(toDownload)[i].PublicId))
            /\ pc = "Downloading" => Supported(CurrentHit.PublicId)
        /\ "unsupported" \in Range(dlResult) => pc # "failed"

\* C5 witness: a hit with an unsupported public id was skipped and a later hit
\* was downloaded.
C5_Witness ==
    /\ pc = "done"
    /\ \E i, j \in 1..Len(dlResult) :
        i < j /\ dlResult[i] = "unsupported" /\ dlResult[j] = "downloaded"

HistoryAttempts ==
    LET first == Len(toDownload.MyContracts) + Len(toDownload.MyPlaylist) + 1
    IN  Cardinality({i \in first..Len(dlResult) : Attempted(i)})
            + (IF pc = "Downloading" /\ Len(dlResult) + 1 >= first THEN 1 ELSE 0)

\* C7: with downloadContractHistory on and a non-zero limit, at most that many
\* history contracts have a download attempted.
C7_HistoryDownloadsLimited ==
    (Merging /\ flags.downloadContractHistory
        /\ flags.downloadContractHistoryLimit # 0) =>
        HistoryAttempts <= flags.downloadContractHistoryLimit

\* C8: downloadContract is never invoked for a hit that resolves locally, so a
\* contract some invocation has downloaded is never downloaded again.
C8_ResolvedNeverDownloaded ==
    pc = "Downloading" =>
        /\ ~resolveContract(CurrentHit.Id)
        /\ CurrentHit.Id \notin okIds

\* C8 witness: the second invocation has skipped, as resolved, the one contract
\* of its sequence, which the first invocation downloaded.
C8_Witness ==
    /\ run = 2
    /\ pc = "done"
    /\ dlResult = <<"resolved">>
    /\ DownloadSequence(toDownload)[1].Id \in okIds

\* C9: an invocation that got the same responses as the one before it returns
\* the same profile, whatever the downloads of the two did.
C9_SameProfileAgain ==
    (pc = "done" /\ prev # None /\ prev[1].oResp = oResp) =>
        userData[1] = prev[1].userData

\* C9 witness: a second invocation has returned a profile with favorite and
\* played contracts after skipping a contract the first one had to download.
C9_Witness ==
    /\ run = 2
    /\ pc = "done"
    /\ prev[1].oResp = oResp
    /\ userData[1].PeacockFavoriteContracts # <<>>
    /\ DOMAIN userData[1].PeacockPlayedContracts # {}
    /\ \E i \in 1..Len(dlResult) :
        dlResult[i] = "resolved" /\ DownloadSequence(toDownload)[i].Id \in okIds

\* the entry of challenge id agrees with the server's flag and timestamp
CompletionAgrees(id) ==
    LET server == oResp["Challenges"][id]
        entry == userData[1].ChallengeProgression[id]
        stamped == server.CompletedAt \notin {JsNull, JsUndefined}
    IN  /\ (server.Completed \/ stamped) => entry.Completed
        /\ ~entry.Completed => (~server.Completed /\ ~stamped)

C11_CompletedEscalationsExact ==
    Merging =>
        LET hs == oResp["ContractAttack"] \o oResp["Arcade"]
            list == userData[1].PeacockCompletedEscalations
        IN  /\ \A i \in 1..Len(hs) :
                userData[1].PeacockEscalations[hs[i].Id] =
                    hs[i].EscalationCompletedLevels + 1
            /\ Range(list) = {hs[i].Id : i \in {k \in 1..Len(hs) : hs[k].EscalationCompleted}}
            /\ \A i, j \in 1..Len(list) : i # j => list[i] # list[j]

\* the location record rec carries the XP and level of the remote entry, on
\* itself when it has an Xp field and on each of its child records otherwise
CarriesEntry(rec, entry) ==
    LET Has(r) == r.Xp = entry.XP /\ r.PreviouslySeenXp = entry.XP
                    /\ r.Level = entry.Level
    IN  IF "Xp" \in DOMAIN rec THEN Has(rec)
        ELSE \A k \in DOMAIN rec : Has(rec[k])

\* C12: once the merge has run, for every remote sublocation entry the local
\* location record of that id carries the entry's XP and level, whether or not
\* the default profile has a record of that id.
C12_EveryLocationMerged ==
    userData # None =>
        \A i \in 1..Len(oResp["PlayerProfile"].SubLocationData) :
            LET entry == oResp["PlayerProfile"].SubLocationData[i]
            IN  /\ entry.Id \in DOMAIN userData[1].Locations
                /\ CarriesEntry(userData[1].Locations[entry.Id], entry)

\* C13: the merged opportunityprogression has the keys of the remote mapping,
\* and each key's value is the boolean true if the remote string is not empty
\* and the boolean false if it is.
C13_OpportunityBooleans ==
    Merging =>
        LET official == oResp["GetProfile"].opportunityprogression
            merged == userData[1].opportunityprogression
        IN  /\ DOMAIN merged = DOMAIN official
            /\ \A k \in DOMAIN official :
                /\ merged[k] \in BOOLEAN
                /\ merged[k] <=> official[k] # ""

\* C13 witness: a profile is returned whose remote mapping had an empty and a
\* non-empty string.
C13_Witness ==
    /\ pc = "done"
    /\ \E j, k \in DOMAIN oResp["GetProfile"].opportunityprogression :
        /\ oResp["GetProfile"].opportunityprogression[j] = ""
        /\ oResp["GetProfile"].opportunityprogression[k] # ""
        /\ ~userData[1].opportunityprogression[j]
        /\ userData[1].opportunityprogression[k]

\* the areas the remote profile flags with the boolean true
FlaggedAreas ==
    {a \in AreaSet :
        /\ a \in DOMAIN oResp["GetProfile"].PersistentBool
        /\ oResp["GetProfile"].PersistentBool[a] = "true"}

\* the merged entry of the special challenge
SpecialEntry == userData[1].ChallengeProgression[specialChallengeId]

\* C14: the entry of the special challenge is where the replay from "Start"
\* and the initial context ends: Completed exactly when the final state is
\* "Success"; "Start", not completed and the initial context when no area is
\* flagged; "Success" and completed with one area flagged and an evaluator
\* that succeeds on any event; and, with an evaluator that succeeds once every
\* area is discovered, completed exactly when all five areas are flagged.
C14_SpecialChallengeReplayed ==
    Merging =>
        /\ SpecialEntry.Completed <=> SpecialEntry.CurrentState = "Success"
        /\ FlaggedAreas = {} =>
            /\ SpecialEntry.CurrentState = "Start"
            /\ ~SpecialEntry.Completed
            /\ SpecialEntry.State = [Discovered |-> <<>>]
        /\ (definition = "AnyEvent" /\ FlaggedAreas # {}) =>
            /\ SpecialEntry.Completed
            /\ SpecialEntry.CurrentState = "Success"
        /\ definition = "AllAreas" =>
            (SpecialEntry.Completed <=> FlaggedAreas = AreaSet)

\* C14 witness: exactly one area is flagged, the evaluator succeeds on any
\* event, and the merged entry is completed in state "Success".
C14_Witness ==
    /\ Merging
    /\ definition = "AnyEvent"
    /\ Cardinality(FlaggedAreas) = 1
    /\ SpecialEntry.Completed
    /\ SpecialEntry.CurrentState = "Success"

\* the invocation ended with an error of requestChallenges
ChallengesFailed == error # None /\ error[1].at = "Challenges"

\* C15: requestChallenges has one request per location in flight or settled
\* while it waits; a failed request (rejected, or not answered with 200) keeps
\* the invocation from going on; and when requestChallenges fails, every
\* request has completed and the error names a location whose request failed.
C15_ChallengeFailureNamed ==
    /\ pc = "AwaitChallenges" => pending \cup DOMAIN settled = Range(Locations)
    /\ "Challenges" \in faults => pc \in {"AwaitChallenges", "failed"}
    /\ ChallengesFailed =>
        /\ pending = {}
        /\ error[1].detail \in DOMAIN settled
        /\ IsFailure(settled[error[1].detail])

\* the place of a request in the order of the fetches
FetchRank(request) ==
    CASE request.endpoint = "GetProfile" -> 1
      [] request.endpoint = "PlayerProfile" -> 2
      [] request.endpoint = "Challenges" -> 3
      [] request.endpoint = "HitsCategory" /\ request.arg = "ContractAttack" -> 4
      [] request.endpoint = "HitsCategory" /\ request.arg = "Arcade" -> 5
      [] request.endpoint = "HitsCategory" /\ request.arg = "MyHistory" -> 6
      [] request.endpoint = "HitsCategory" /\ request.arg = "MyContracts" -> 7
      [] request.endpoint = "HitsCategory" /\ request.arg = "MyPlaylist" -> 8
      [] request.endpoint = "GetForPlay2" -> 9

\* C16: the requests of an invocation are sent in the order profile, player
\* profile, challenges, ContractAttack, Arcade, MyHistory, MyContracts,
\* MyPlaylist, CPD, none of them skipped and none sent twice; no request is sent
\* while a challenge request is in flight; and a download is in flight only
\* after the last fetch, with no request in flight beside it.
C16_SequentialInOrder ==
    /\ issued # <<>> => FetchRank(issued[1]) = 1
    /\ \A i \in 1..(Len(issued) - 1) :
        /\ FetchRank(issued[i]) <= FetchRank(issued[i + 1])
        /\ FetchRank(issued[i + 1]) <= FetchRank(issued[i]) + 1
    /\ \A i, j \in 1..Len(issued) : i # j => issued[i] # issued[j]
    /\ pending # {} => issued[Len(issued)].endpoint = "Challenges"
    /\ pc \in {"Download", "Downloading", "done"} =>
        /\ pending = {}
        /\ issued[Len(issued)].endpoint = "GetForPlay2"

\* C16 witness: a download is in flight in an invocation that fetched two
\* pages of a listing.
C16_Witness ==
    /\ pc = "Downloading"
    /\ \E i \in 1..Len(issued) : issued[i].page = 1
    /\ Len(issued) >= 10

\* the pages requested of category c so far, in the order of the requests
PagesRequested(c) ==
    LET OfCategory(request) == request.endpoint = "HitsCategory" /\ request.arg = c
        requests == SelectSeq(issued, OfCategory)
    IN  [i \in 1..Len(requests) |-> requests[i].page]

\* the hits of the first n pages the server holds of category c, in page order
HitsOfPages(c, n) == Concat([p \in 1..n |-> remote.hits[c][p].Hits])

\* the pages requested of every category are 0, 1, 2, ... with HasMore true on
\* each but the last requested; a listing that was returned was requested from
\* page 0 up to its first page with HasMore false and holds the hits of those
\* pages in page order
PagesInOrder ==
    \A c \in Range(Categories) :
        LET pages == PagesRequested(c)
            n == Len(pages)
        IN  /\ \A i \in 1..n : pages[i] = i - 1
            /\ \A i \in 1..(n - 1) : remote.hits[c][i].HasMore
            /\ c \in DOMAIN oResp =>
                /\ n >= 1
                /\ ~remote.hits[c][n].HasMore
                /\ oResp[c] = HitsOfPages(c, n)
            /\ (pc = "Hits" /\ Categories[cat] = c) =>
                /\ n = page
                /\ hits = HitsOfPages(c, n)

\* C17: each category's pages are requested consecutively from page 0 up to the
\* first page with HasMore false and no further, the listing returned is the
\* concatenation of their hits in page order, and the fetching of the listings
\* comes to an end.
C17_PaginationEnds ==
    /\ []PagesInOrder
    /\ (pc = "Hits") ~> (pc # "Hits")

\* C17 witness: a listing of two pages has been returned with the hits of both.
C17_Witness ==
    /\ pc = "done"
    /\ \E c \in Range(Categories) :
        /\ PagesRequested(c) = <<0, 1>>
        /\ Len(oResp[c]) = 2
        /\ oResp[c][1] = remote.hits[c][1].Hits[1]
        /\ oResp[c][2] = remote.hits[c][2].Hits[1]

\* the challenges the server returns for the i-th location requested
ReturnedFor(i) == remote.challenges[Locations[i]]

\* the places <<i, k>> at which the server returns challenge id: the k-th
\* challenge of the i-th location
PlacesOf(id) ==
    UNION { { <<i, k>> : k \in {n \in 1..Len(ReturnedFor(i)) : ReturnedFor(i)[n].Id = id} } :
            i \in 1..Len(Locations) }

\* C18: the challenge map has the ids the server returned for any location, and
\* under each id the challenge of the location requested latest that returned
\* it (the last one of that id in its response), in whatever order the
\* responses arrived.
C18_LastLocationWins ==
    "Challenges" \in DOMAIN oResp =>
        LET map == oResp["Challenges"]
        IN  /\ \A id \in DOMAIN map : PlacesOf(id) # {}
            /\ \A i \in 1..Len(Locations) : \A k \in 1..Len(ReturnedFor(i)) :
                LET id == ReturnedFor(i)[k].Id
                    last == CHOOSE q \in PlacesOf(id) :
                                \A r \in PlacesOf(id) :
                                    r[1] < q[1] \/ (r[1] = q[1] /\ r[2] <= q[2])
                IN  /\ id \in DOMAIN map
                    /\ map[id] = ReturnedFor(last[1])[last[2]]

\* C18 witness: two locations returned the same challenge id with different
\* progress, the response of the location requested later arrived first, and
\* the map keeps the challenge of the location requested later.
C18_Witness ==
    /\ "Challenges" \in DOMAIN oResp
    /\ arrival = <<Locations[2], Locations[1]>>
    /\ Len(ReturnedFor(1)) >= 1
    /\ Len(ReturnedFor(2)) >= 1
    /\ ReturnedFor(1)[1].Id = ReturnedFor(2)[1].Id
    /\ ReturnedFor(1)[1] # ReturnedFor(2)[1]
    /\ oResp["Challenges"][ReturnedFor(2)[1].Id] = ReturnedFor(2)[Len(ReturnedFor(2))]

\* the entry of a fetched challenge has the server's current state, or "Start"
\* when the server's state has none
CurrentStateAgrees(id) ==
    LET server == oResp["Challenges"][id].CurrentState
    IN  userData[1].ChallengeProgression[id].CurrentState =
            (IF server \in {JsNull, JsUndefined} THEN "Start" ELSE server)

\* C19: in the returned profile every ChallengeProgression entry has Ticked
\* equal to Completed, and every entry of a fetched challenge has the server's
\* current state, or "Start" when the server gives none.
C19_TickedMirrorsCompleted ==
    pc = "done" =>
        \A id \in DOMAIN userData[1].ChallengeProgression :
            /\ userData[1].ChallengeProgression[id].Ticked =
                    userData[1].ChallengeProgression[id].Completed
            /\ id \in DOMAIN oResp["Challenges"] => CurrentStateAgrees(id)

\* the AreaDiscovered events the evaluator was given, in order, as its context
\* records them
EventsReplayed == SpecialEntry.State.Discovered

\* the place of an area in the hardcoded list
AreaIndex(area) == CHOOSE i \in 1..Len(areaIds) : areaIds[i] = area

\* C20: the evaluator is given one AreaDiscovered event for each area whose
\* flag is the boolean true and none for any other area, in the order of the
\* hardcoded list, each event evaluated from the state and context the one
\* before it produced; the entry built replaces whatever the server returned
\* under the special challenge's id.
C20_OneEventPerFlaggedArea ==
    Merging =>
        /\ Range(EventsReplayed) = FlaggedAreas
        /\ Len(EventsReplayed) = Cardinality(FlaggedAreas)
        /\ \A i, j \in 1..Len(EventsReplayed) :
            i < j => AreaIndex(EventsReplayed[i]) < AreaIndex(EventsReplayed[j])
        /\ (definition = "AllAreas" /\ FlaggedAreas = AreaSet) =>
            SpecialEntry.CurrentState = "Success"
        /\ specialChallengeId \in DOMAIN oResp["Challenges"] =>
            /\ DOMAIN SpecialEntry.State = {"Discovered"}
            /\ ~SpecialEntry.Ticked
            /\ (definition = "AllAreas" /\ FlaggedAreas # AreaSet) =>
                (~SpecialEntry.Completed /\ SpecialEntry.CurrentState = "Start")

\* C20 witness: the server returned the special challenge as completed; of the
\* first three areas the first and third are flagged true and the second has a
\* value that is not the boolean true; two events were replayed and the entry
\* is the reconstructed one.
C20_Witness ==
    /\ Merging
    /\ specialChallengeId \in DOMAIN oResp["Challenges"]
    /\ oResp["Challenges"][specialChallengeId].Completed
    /\ areaIds[2] \in DOMAIN oResp["GetProfile"].PersistentBool
    /\ oResp["GetProfile"].PersistentBool[areaIds[2]] \in {"'true'", "1"}
    /\ EventsReplayed = <<areaIds[1], areaIds[3]>>
    /\ definition = "AllAreas"
    /\ ~SpecialEntry.Completed

\* the ids of a sequence of hits, in its order
IdsOf(hs) == [i \in 1..Len(hs) |-> hs[i].Id]

\* the MyContracts hits within the configured limit
WithinLimit ==
    IF flags.downloadContractHistoryLimit = 0 THEN oResp["MyContracts"]
    ELSE SubSeq(oResp["MyContracts"], 1,
                IF Len(oResp["MyContracts"]) < flags.downloadContractHistoryLimit
                THEN Len(oResp["MyContracts"])
                ELSE flags.downloadContractHistoryLimit)

\* the contracts for which the download loop attempted a download
AttemptedIds ==
    {DownloadSequence(toDownload)[i].Id : i \in {k \in 1..Len(dlResult) : Attempted(k)}}

====
